---- MODULE Spec2Model ----
(***************************************************************************)
(* Model of gtsam/linear/SubgraphSolver.cpp: the Kruskal-style graph       *)
(* splitter (splitGraph), the construction variants of SubgraphSolver and  *)
(* its optimize overloads.                                                 *)
(*                                                                         *)
(* A factor is the sequence of its keys; a factor graph is a sequence of   *)
(* factors.  The two output graphs hold factors by their position in the   *)
(* input graph, so that two factors with the same keys stay distinct.      *)
(***************************************************************************)
EXTENDS Integers, Sequences, FiniteSets, TLC

\* ---- bounds ----
NumKeys == 3
MaxLen == 3
SolverMaxLen == 2

Keys == 1..NumKeys

\* Key pairs of the binary factors: every pair of keys in increasing order,
\* one pair of equal keys and one pair in decreasing order.
BinaryKeys == {f \in Keys \X Keys : f[1] < f[2] \/ f = <<1, 1>> \/ f = <<2, 1>>}

\* Factors of arity 0, 1, 2 and 3: unary factors on the first and the last
\* key, and one ternary factor.
Factors ==
    {<<>>}
    \cup {<<a>> : a \in {1, NumKeys}}
    \cup BinaryKeys
    \cup {<<1, 2, 3>>}

RECURSIVE GraphsUpTo(_)
GraphsUpTo(n) ==
    IF n = 0 THEN {<<>>}
    ELSE LET S == GraphsUpTo(n - 1)
         IN  S \cup {Append(g, f) : g \in {h \in S : Len(h) = n - 1}, f \in Factors}

Range(s) == {s[j] : j \in 1..Len(s)}

VARIABLES
    input,        \* factorGraph, the argument of splitGraph
    pos,          \* position of the range-for loop (1-based)
    tree,         \* local `tree`: positions of the factors pushed so far
    constraints,  \* local `constraints`
    dsf,          \* local `dsf`: parent pointer per key, 0 = no entry yet
    pc,           \* "loop", "returned", "thrown", "crashed", "initialized"
    result,       \* <<>> before the return, <<tree, constraints>> after it
    ordering_,    \* SubgraphSolver::ordering_
    parameters_,  \* SubgraphSolver::parameters_
    pc_,          \* SubgraphSolver::pc_ of one solver per construction variant
    status,       \* outcome of each variant's constructor
    ret,          \* <<>> or <<value returned by the last optimize call>>
    cgStart,      \* <<>> or <<start vector of the last conjugateGradients call>>
    lastCall      \* <<operation, variant, <<initial argument>> >>

splitVars == <<input, pos, tree, constraints, dsf, pc, result>>
solverVars == <<ordering_, parameters_, pc_, status>>
callVars == <<ret, cgStart, lastCall>>
vars == <<input, pos, tree, constraints, dsf, pc, result,
          ordering_, parameters_, pc_, status, ret, cgStart, lastCall>>

\* ---- DSFMap<Key> (gtsam_unstable/base/DSFMap.h) ----
DsfEmpty == [k \in Keys |-> 0]

\* find creates the entry of an unseen key, which is then its own parent
DsfTouch(d, k) == IF d[k] = 0 THEN [d EXCEPT ![k] = k] ELSE d

RECURSIVE DsfRoot(_, _)
DsfRoot(d, k) == IF d[k] = k \/ d[k] = 0 THEN k ELSE DsfRoot(d, d[k])

\* representative returned by find(k)
DsfFind(d, k) == DsfRoot(DsfTouch(d, k), k)

\* DSF after the two find calls of the edge test
DsfAfterFind(d, a, b) == DsfTouch(DsfTouch(d, a), b)

\* merge(a, b); keepFirst chooses which of the two roots survives
DsfMerge(d, a, b, keepFirst) ==
    LET e == DsfAfterFind(d, a, b)
        ra == DsfRoot(e, a)
        rb == DsfRoot(e, b)
    IN  IF ra = rb THEN e
        ELSE IF keepFirst THEN [e EXCEPT ![rb] = ra]
        ELSE [e EXCEPT ![ra] = rb]

\* the mapping key -> representative that the DSF stands for
DsfRep(d) == [k \in Keys |-> DsfFind(d, k)]

\* ---- SubgraphSolver::splitGraph ----
InLoop == pc = "loop" /\ pos <= Len(input)
keys == input[pos]

\* variant: the size test lets a factor of three keys through
notSimpleAboveThree(ks) == Len(ks) > 3

\* keys.size() > 2
notSimple(ks) == Len(ks) > 2

\* variant: the edge test compares the keys, not their representatives
joinsDisjointByKey(d, a, b) == a # b

\* dsf.find(keys[0]) != dsf.find(keys[1])
joinsDisjoint(d, a, b) == DsfFind(d, a) # DsfFind(d, b)

ThrowNotSimple ==
    /\ InLoop
    /\ notSimple(keys)
    /\ pc' = "thrown"
    /\ tree' = <<>> /\ constraints' = <<>> /\ dsf' = DsfEmpty
    /\ lastCall' = <<"splitGraph", "graph", <<>> >>
    /\ UNCHANGED <<input, pos, result, solverVars, ret, cgStart>>

\* variant: a unary factor goes to the constraints graph
PushUnaryToConstraints ==
    /\ InLoop
    /\ ~notSimple(keys)
    /\ Len(keys) = 1
    /\ constraints' = Append(constraints, pos)
    /\ pos' = pos + 1
    /\ lastCall' = <<"splitGraph", "graph", <<>> >>
    /\ UNCHANGED <<input, tree, dsf, pc, result, solverVars, ret, cgStart>>

PushUnary ==
    /\ InLoop
    /\ ~notSimple(keys)
    /\ Len(keys) = 1
    /\ tree' = Append(tree, pos)
    /\ pos' = pos + 1
    /\ lastCall' = <<"splitGraph", "graph", <<>> >>
    /\ UNCHANGED <<input, constraints, dsf, pc, result, solverVars, ret, cgStart>>

\* variant: the tree edge is pushed but the merge is not recorded
TreeEdgeNoMerge(a, b, keepFirst) ==
    /\ joinsDisjoint(dsf, a, b)
    /\ tree' = Append(tree, pos)
    /\ dsf' = DsfAfterFind(dsf, a, b)
    /\ pos' = pos + 1
    /\ lastCall' = <<"splitGraph", "graph", <<>> >>
    /\ UNCHANGED <<input, constraints, pc, result, solverVars, ret, cgStart>>

\* variant: the tree edge is put in front of the tree graph
TreeEdgePushFront(a, b, keepFirst) ==
    /\ joinsDisjoint(dsf, a, b)
    /\ tree' = <<pos>> \o tree
    /\ dsf' = DsfMerge(dsf, a, b, keepFirst)
    /\ pos' = pos + 1
    /\ lastCall' = <<"splitGraph", "graph", <<>> >>
    /\ UNCHANGED <<input, constraints, pc, result, solverVars, ret, cgStart>>

\* variant: a loop-closing factor is dropped
LoopEdgeDropped(a, b) ==
    /\ ~joinsDisjoint(dsf, a, b)
    /\ constraints' = constraints
    /\ dsf' = DsfAfterFind(dsf, a, b)
    /\ pos' = pos + 1
    /\ lastCall' = <<"splitGraph", "graph", <<>> >>
    /\ UNCHANGED <<input, tree, pc, result, solverVars, ret, cgStart>>

\* the two branches of the edge test, for the keys a, b read from the factor
TreeEdge(a, b, keepFirst) ==
    /\ joinsDisjoint(dsf, a, b)
    /\ tree' = Append(tree, pos)
    /\ dsf' = DsfMerge(dsf, a, b, keepFirst)
    /\ pos' = pos + 1
    /\ lastCall' = <<"splitGraph", "graph", <<>> >>
    /\ UNCHANGED <<input, constraints, pc, result, solverVars, ret, cgStart>>

LoopEdge(a, b) ==
    /\ ~joinsDisjoint(dsf, a, b)
    /\ constraints' = Append(constraints, pos)
    /\ dsf' = DsfAfterFind(dsf, a, b)
    /\ pos' = pos + 1
    /\ lastCall' = <<"splitGraph", "graph", <<>> >>
    /\ UNCHANGED <<input, tree, pc, result, solverVars, ret, cgStart>>

PushTreeEdge ==
    /\ InLoop
    /\ ~notSimple(keys)
    /\ Len(keys) >= 2
    /\ \E keepFirst \in BOOLEAN : TreeEdge(keys[1], keys[2], keepFirst)

PushConstraint ==
    /\ InLoop
    /\ ~notSimple(keys)
    /\ Len(keys) >= 2
    /\ LoopEdge(keys[1], keys[2])

\* A factor without keys passes both size tests, and keys[0], keys[1] then
\* read past the end of an empty vector: the read faults, or it yields
\* whatever two values lie there, here the keys of some binary factor.
EmptyKeysCrash ==
    /\ InLoop
    /\ ~notSimple(keys)
    /\ Len(keys) = 0
    /\ pc' = "crashed"
    /\ tree' = <<>> /\ constraints' = <<>> /\ dsf' = DsfEmpty
    /\ lastCall' = <<"splitGraph", "graph", <<>> >>
    /\ UNCHANGED <<input, pos, result, solverVars, ret, cgStart>>

EmptyKeysGarbage ==
    /\ InLoop
    /\ ~notSimple(keys)
    /\ Len(keys) = 0
    /\ \E f \in BinaryKeys :
          \/ \E keepFirst \in BOOLEAN : TreeEdge(f[1], f[2], keepFirst)
          \/ LoopEdge(f[1], f[2])

Return ==
    /\ pc = "loop"
    /\ pos > Len(input)
    /\ result' = <<tree, constraints>>
    /\ pc' = "returned"
    /\ tree' = <<>> /\ constraints' = <<>> /\ dsf' = DsfEmpty
    /\ lastCall' = <<"splitGraph", "graph", <<>> >>
    /\ UNCHANGED <<input, pos, solverVars, ret, cgStart>>

SplitNext ==
    \/ ThrowNotSimple
    \/ PushUnary
    \/ PushTreeEdge
    \/ PushConstraint
    \/ EmptyKeysCrash
    \/ EmptyKeysGarbage
    \/ Return

\* ---- collaborators of the solver ----
\* keys of the factors of a graph given by positions in the input
GraphKeys(g) == UNION {Range(input[g[j]]) : j \in 1..Len(g)}

\* GaussianFactorGraph::eliminateSequential(ordering, EliminateQR): the
\* factorization of g along ord; it fails when ord omits a key of g
eliminateSequential(g, ord) ==
    [ok |-> GraphKeys(g) \subseteq Range(ord), graph |-> g, ordering |-> ord]

\* GaussianBayesNet::optimize(): back-substitution through the factorization
optimizeBayesNet(Rc1) == [solveOf |-> Rc1]

\* SubgraphPreconditioner(Ab2, Rc1, xbar)
SubgraphPreconditioner(Ab2, Rc1, xbar) == [Ab2 |-> Ab2, Rc1 |-> Rc1, xbar |-> xbar]

\* SubgraphPreconditioner::zero(): one zero entry per variable of Rc1
zero(p) == [k \in GraphKeys(p.Rc1.graph) |-> 0]

\* conjugateGradients(Ab, x, parameters): a function of the system, the
\* start vector and the parameters
conjugateGradients(p, x0, par) == [system |-> p, start |-> x0, parameters |-> par]

\* SubgraphPreconditioner::x(y)
x(p, y) == [kind |-> "x", of |-> <<p, y>>]

\* VectorValues()
EmptyVectorValues == [kind |-> "empty", of |-> <<>>]

\* ---- SubgraphSolver ----
Variants == {"graph", "split", "bayes"}

\* an ordering that leaves the last key out, and one of all keys
ShortOrderings == { [j \in 1..(NumKeys - 1) |-> j] }

Orderings == ShortOrderings \cup { [j \in 1..NumKeys |-> NumKeys + 1 - j] }

\* the solver's parameters; verbosity only controls printing
ParameterChoices == { [verbosity |-> FALSE] }

Initials == { [k \in Keys |-> c] : c \in 0..1 }

\* variant: the baseline is taken from the factorization of the constraints
initializeOtherBaseline(Rc1, Ab2) ==
    SubgraphPreconditioner(Ab2, Rc1,
        optimizeBayesNet(eliminateSequential(Ab2, Rc1.ordering)))

\* initialize(Rc1, Ab2): the preconditioner the solver stores
initialize(Rc1, Ab2) ==
    SubgraphPreconditioner(Ab2, Rc1, optimizeBayesNet(Rc1))

\* the part of initialize(jfg) after splitGraph returned (Ab1, Ab2)
initializeSplit(Ab1, Ab2, ord) ==
    LET Rc1 == eliminateSequential(Ab1, ord)
    IN  SubgraphPreconditioner(Ab2, Rc1, optimizeBayesNet(Rc1))

\* optimize(): the value returned and the start vector handed to CG
optimize(p, par) ==
    [ret |-> x(p, conjugateGradients(p, zero(p), par)), start |-> zero(p)]

\* variant: CG is warm-started from the supplied assignment
optimizeWarmStart(p, par, initial) ==
    [ret |-> x(p, conjugateGradients(p, initial, par)), start |-> initial]

\* optimize(initial)
optimizeInitial(p, par, initial) == optimize(p, par)

\* variant: the overload hands the initial assignment back
optimizeStubEcho(p, par, gfg, initial) == [kind |-> "x", of |-> <<initial>>]

\* optimize(gfg, keyInfo, lambda, initial); keyInfo and lambda are as unused
\* as gfg and initial
optimizeStub(p, par, gfg, initial) == EmptyVectorValues

\* SubgraphSolver(gfg, parameters, ordering), after splitGraph returned
InitializeFromGraph ==
    /\ pc = "returned"
    /\ status["graph"] = "none"
    /\ pc' = "initialized"
    /\ IF eliminateSequential(result[1], ordering_).ok
       THEN /\ pc_' = [pc_ EXCEPT !["graph"] =
                         <<initializeSplit(result[1], result[2], ordering_)>>]
            /\ status' = [status EXCEPT !["graph"] = "ok"]
       ELSE /\ pc_' = pc_
            /\ status' = [status EXCEPT !["graph"] = "eliminationFailed"]
    /\ lastCall' = <<"SubgraphSolver", "graph", <<>> >>
    /\ UNCHANGED <<input, pos, tree, constraints, dsf, result,
                   ordering_, parameters_, ret, cgStart>>

\* SubgraphSolver(Ab1, Ab2, parameters, ordering)
ConstructFromSplit(Ab1, Ab2) ==
    /\ status["split"] = "none"
    /\ LET Rc1 == eliminateSequential(Ab1, ordering_)
       IN  IF Rc1.ok
           THEN /\ pc_' = [pc_ EXCEPT !["split"] = <<initialize(Rc1, Ab2)>>]
                /\ status' = [status EXCEPT !["split"] = "ok"]
           ELSE /\ pc_' = pc_
                /\ status' = [status EXCEPT !["split"] = "eliminationFailed"]
    /\ lastCall' = <<"SubgraphSolver", "split", <<>> >>
    /\ UNCHANGED <<splitVars, ordering_, parameters_, ret, cgStart>>

\* SubgraphSolver(Rc1, Ab2, parameters, ordering)
ConstructFromBayesNet(Rc1, Ab2) ==
    /\ status["bayes"] = "none"
    /\ Rc1.ok
    /\ pc_' = [pc_ EXCEPT !["bayes"] = <<initialize(Rc1, Ab2)>>]
    /\ status' = [status EXCEPT !["bayes"] = "ok"]
    /\ lastCall' = <<"SubgraphSolver", "bayes", <<>> >>
    /\ UNCHANGED <<splitVars, ordering_, parameters_, ret, cgStart>>

Optimize(v) ==
    /\ status[v] = "ok"
    /\ LET r == optimize(pc_[v][1], parameters_)
       IN  ret' = <<r.ret>> /\ cgStart' = <<r.start>>
    /\ lastCall' = <<"optimize", v, <<>> >>
    /\ UNCHANGED <<splitVars, solverVars>>

OptimizeInitial(v, initial) ==
    /\ status[v] = "ok"
    /\ LET r == optimizeInitial(pc_[v][1], parameters_, initial)
       IN  ret' = <<r.ret>> /\ cgStart' = <<r.start>>
    /\ lastCall' = <<"optimizeInitial", v, <<initial>> >>
    /\ UNCHANGED <<splitVars, solverVars>>

OptimizeStub(v, gfg, initial) ==
    /\ status[v] = "ok"
    /\ ret' = <<optimizeStub(pc_[v][1], parameters_, gfg, initial)>>
    /\ lastCall' = <<"optimizeStub", v, <<initial>> >>
    /\ UNCHANGED <<splitVars, solverVars, cgStart>>

InitWith(n, orderings) ==
    /\ input \in GraphsUpTo(n)
    /\ pos = 1
    /\ tree = <<>>
    /\ constraints = <<>>
    /\ dsf = DsfEmpty
    /\ pc = "loop"
    /\ result = <<>>
    /\ ordering_ \in orderings
    /\ parameters_ \in ParameterChoices
    /\ pc_ = [v \in Variants |-> <<>>]
    /\ status = [v \in Variants |-> "none"]
    /\ ret = <<>>
    /\ cgStart = <<>>
    /\ lastCall = <<"none", "graph", <<>> >>

\* construction of a solver from a raw graph: splitGraph, then the rest of
\* initialize(jfg)
Init == InitWith(MaxLen, ShortOrderings)

Next ==
    \/ SplitNext
    \/ InitializeFromGraph

Spec == Init /\ [][Next]_vars

\* solvers are constructed from the raw graph, from its split and from the
\* factorization of its tree part, and then asked to optimize
SolverInit == InitWith(SolverMaxLen, Orderings)

SolverNext ==
    \/ SplitNext
    \/ InitializeFromGraph
    \/ result # <<>> /\ ConstructFromSplit(result[1], result[2])
    \/ result # <<>> /\
          ConstructFromBayesNet(eliminateSequential(result[1], ordering_), result[2])
    \/ \E v \in Variants : Optimize(v)
    \/ \E v \in Variants, initial \in Initials : OptimizeInitial(v, initial)
    \/ \E v \in Variants, initial \in Initials : OptimizeStub(v, input, initial)

SolverSpec == SolverInit /\ [][SolverNext]_vars

\* ---- properties of splitGraph ----
Positions == 1..Len(input)
Arity(j) == Len(input[j])

\* every factor of the input is unary or binary
WellFormed == \A j \in Positions : Arity(j) \in {1, 2}

\* no factor without keys has been processed yet
PrefixKeyed == \A j \in Positions : j < pos => Arity(j) >= 1

Occurrences(s, j) == Cardinality({q \in 1..Len(s) : s[q] = j})

Increasing(s) == \A q \in 1..Len(s), r \in 1..Len(s) : q < r => s[q] < s[r]

\* keys connected to a key of S through the edges E
RECURSIVE Closure(_, _)
Closure(S, E) ==
    LET N == S \cup {e[2] : e \in {f \in E : f[1] \in S}}
               \cup {e[1] : e \in {f \in E : f[2] \in S}}
    IN  IF N = S THEN S ELSE Closure(N, E)

\* the binary factors among the given positions, as edges
EdgesAt(P) == {input[j] : j \in {q \in P : Arity(q) = 2}}

Touched(E) == UNION {{e[1], e[2]} : e \in E}

Components(E) == {Closure({v}, E) : v \in Touched(E)}

\* keys in the DSF component of k
DsfClass(d, k) == {y \in Keys : DsfFind(d, y) = DsfFind(d, k)}

\* C1: for a graph of unary and binary factors the two outputs partition
\* the input: the sizes add up and every position occurs exactly once in
\* the two outputs together (during the loop: every processed position).
C1_Partition ==
    WellFormed =>
      /\ pc = "loop" =>
            \A j \in Positions :
               Occurrences(tree, j) + Occurrences(constraints, j)
                  = (IF j < pos THEN 1 ELSE 0)
      /\ result # <<>> =>
            /\ Len(result[1]) + Len(result[2]) = Len(input)
            /\ Range(result[1]) \cup Range(result[2]) = Positions
            /\ \A j \in Positions :
                  Occurrences(result[1], j) + Occurrences(result[2], j) = 1

C1_Witness ==
    /\ WellFormed
    /\ result # <<>>
    /\ Len(input) >= 3
    /\ result[1] # <<>>
    /\ result[2] # <<>>

\* C2: for a graph of unary and binary factors, the number of binary
\* factors in Tree is the number of keys touched by binary factors minus
\* the number of connected components of the graph of all binary factors.
C2_SpanningForestSize ==
    (WellFormed /\ result # <<>>) =>
       Cardinality({j \in Range(result[1]) : Arity(j) = 2})
          = Cardinality(Touched(EdgesAt(Positions)))
              - Cardinality(Components(EdgesAt(Positions)))

\* a graph with a self-loop factor and two parallel edges
C2_Witness ==
    /\ WellFormed
    /\ result # <<>>
    /\ \E j \in Positions : Arity(j) = 2 /\ input[j][1] = input[j][2]
    /\ \E j \in Positions, m \in Positions :
          /\ j < m /\ Arity(j) = 2 /\ Arity(m) = 2
          /\ input[j][1] # input[j][2]
          /\ {input[j][1], input[j][2]} = {input[m][1], input[m][2]}

\* C3: every unary factor processed is in Tree, and the step that
\* processes a unary factor appends it to Tree and leaves the DSF and the
\* constraints alone.
C3_UnaryState ==
    /\ pc = "loop" =>
          \A j \in Positions : (j < pos /\ Arity(j) = 1) => Occurrences(tree, j) = 1
    /\ result # <<>> =>
          \A j \in Positions : Arity(j) = 1 =>
             Occurrences(result[1], j) = 1 /\ Occurrences(result[2], j) = 0

C3_UnaryStep ==
    (InLoop /\ Len(keys) = 1) =>
       /\ tree' = Append(tree, pos)
       /\ dsf' = dsf
       /\ constraints' = constraints
       /\ pos' = pos + 1

C3_UnaryInTree == []C3_UnaryState /\ [][C3_UnaryStep]_vars

\* a unary factor was just pushed while the DSF already held merged keys
C3_Witness ==
    /\ pc = "loop"
    /\ pos > 2
    /\ Arity(pos - 1) = 1
    /\ tree[Len(tree)] = pos - 1
    /\ \E a \in Keys, b \in Keys : a # b /\ DsfFind(dsf, a) = DsfFind(dsf, b)

\* C4: the step that processes a binary factor with keys a, b appends it
\* to Tree iff a and b are in different DSF components, and then the two
\* components are merged and no other; otherwise it appends the factor to
\* Constraints and every key keeps its representative.  As long as only
\* keyed factors were processed, different components means not connected
\* through the binary factors already in Tree.
C4_BinaryStep ==
    (InLoop /\ Len(keys) = 2) =>
       LET a == keys[1]
           b == keys[2]
           apart == DsfClass(dsf, a) # DsfClass(dsf, b)
           joined == DsfClass(dsf, a) \cup DsfClass(dsf, b)
       IN  /\ PrefixKeyed =>
                (apart <=> b \notin Closure({a}, EdgesAt(Range(tree))))
           /\ pos' = pos + 1
           /\ IF apart
              THEN /\ tree' = Append(tree, pos)
                   /\ constraints' = constraints
                   /\ DsfFind(dsf', a) = DsfFind(dsf', b)
                   /\ \A y \in Keys :
                         DsfClass(dsf', y) =
                            (IF y \in joined THEN joined ELSE DsfClass(dsf, y))
              ELSE /\ constraints' = Append(constraints, pos)
                   /\ tree' = tree
                   /\ DsfRep(dsf') = DsfRep(dsf)

C4_BinaryPlacement == [][C4_BinaryStep]_vars

\* both branches were taken: an edge was put in Tree and a later one, whose
\* keys differ, was put in Constraints
C4_Witness ==
    /\ pc = "loop"
    /\ pos > 2
    /\ Arity(pos - 1) = 2
    /\ input[pos - 1][1] # input[pos - 1][2]
    /\ constraints # <<>>
    /\ constraints[Len(constraints)] = pos - 1
    /\ \E q \in 1..Len(tree) : Arity(tree[q]) = 2

\* C5: a factor of more than two keys is never passed: reaching it throws,
\* no result is returned and no solver is constructed from the graph.
C5_State ==
    /\ \A j \in Positions : Arity(j) > 2 =>
          /\ pos <= j
          /\ pc \in {"loop", "thrown", "crashed"}
          /\ result = <<>>
          /\ status["graph"] = "none"
          /\ pc_["graph"] = <<>>
    /\ pc = "thrown" => (pos \in Positions /\ Arity(pos) > 2)
    /\ pc = "crashed" => (pos \in Positions /\ Arity(pos) = 0)

C5_Step ==
    (InLoop /\ Len(keys) > 2) =>
       /\ pc' = "thrown"
       /\ result' = <<>>
       /\ pc_' = pc_
       /\ status' = status

C5_NotSimpleThrows == []C5_State /\ [][C5_Step]_vars

\* thrown with well-formed factors before and after the offending one
C5_Witness ==
    /\ pc = "thrown"
    /\ 1 < pos
    /\ pos < Len(input)
    /\ \A j \in Positions : j # pos => Arity(j) \in {1, 2}
    /\ status["graph"] = "none"

\* C6: a factor without keys is never passed either: the loop stops at it
\* with the malformed-factor error, and it is not placed in an output.
C6_EmptyFactorThrows ==
    \A j \in Positions : Arity(j) = 0 =>
       /\ pos <= j
       /\ pc \in {"loop", "thrown"}

\* C10: each output lists its factors in input order, and for a graph of
\* unary and binary factors the outputs are determined by the input: a
\* factor is in Tree iff it is unary or its keys are not connected by the
\* binary factors before it.
ExpectedInTree(j) ==
    \/ Arity(j) = 1
    \/ /\ Arity(j) = 2
       /\ input[j][2] \notin Closure({input[j][1]}, EdgesAt(1..(j - 1)))

C10_OrderPreserved ==
    /\ Increasing(tree)
    /\ Increasing(constraints)
    /\ result # <<>> =>
          /\ Increasing(result[1])
          /\ Increasing(result[2])
          /\ WellFormed =>
                /\ Range(result[1]) = {j \in Positions : ExpectedInTree(j)}
                /\ Range(result[2]) = {j \in Positions : ~ExpectedInTree(j)}

C10_Witness ==
    /\ result # <<>>
    /\ WellFormed
    /\ Len(result[1]) >= 2
    /\ Len(result[2]) >= 1
    /\ \E q \in 1..Len(result[1]) : result[2][1] < result[1][q]

\* ---- properties of the solver ----
\* C7: optimize(initial) starts CG from zero() and returns what optimize()
\* returns on the same solver, whatever the initial assignment: after the
\* call the returned value is that of optimize(), and a call of
\* optimize(initial) right after optimize() on the same solver returns the
\* same value again.
C7_State ==
    lastCall[1] = "optimizeInitial" =>
       LET p == pc_[lastCall[2]][1]
       IN  /\ cgStart = <<zero(p)>>
           /\ ret = <<x(p, conjugateGradients(p, zero(p), parameters_))>>

C7_Step ==
    (/\ lastCall[1] = "optimize"
     /\ lastCall'[1] = "optimizeInitial"
     /\ lastCall'[2] = lastCall[2]) =>
       /\ ret' = ret
       /\ cgStart' = cgStart

C7_InitialIgnored == []C7_State /\ [][C7_Step]_vars

\* optimize(initial) returned for an initial assignment that is not zero
C7_Witness ==
    /\ lastCall[1] = "optimizeInitial"
    /\ lastCall[3] = << [k \in Keys |-> 1] >>
    /\ ret # <<>>
    /\ GraphKeys(pc_[lastCall[2]][1].Rc1.graph) = Keys

\* C8: a call of optimize(gfg, keyInfo, lambda, initial) returns the empty
\* assignment and changes nothing else: no split, no elimination, no CG
\* run, and the preconditioner, parameters and ordering stay as they were.
C8_Step ==
    lastCall'[1] = "optimizeStub" =>
       /\ ret' = <<EmptyVectorValues>>
       /\ UNCHANGED <<pc_, parameters_, ordering_, status>>
       /\ UNCHANGED cgStart
       /\ UNCHANGED splitVars

C8_StubReturnsEmpty == [][C8_Step]_vars

\* the overload was called on a solver that had already run CG, with a
\* graph and an initial assignment that are not empty
C8_Witness ==
    /\ lastCall[1] = "optimizeStub"
    /\ lastCall[3] = << [k \in Keys |-> 1] >>
    /\ cgStart # <<>>
    /\ Len(input) >= 2
    /\ ret = <<EmptyVectorValues>>

\* C9: the construction variants agree: a solver constructed from the raw
\* graph, from its split (Ab1, Ab2) or from the factorization of Ab1 and
\* Ab2 holds the same preconditioner, made of Ab2, the factorization of Ab1
\* along the ordering and the solve of that factorization; and the
\* variants that eliminate fail together.
C9_VariantsAgree ==
    /\ \A v \in Variants : status[v] = "ok" =>
          /\ result # <<>>
          /\ pc_[v] # <<>>
          /\ pc_[v][1].Ab2 = result[2]
          /\ pc_[v][1].Rc1 = eliminateSequential(result[1], ordering_)
          /\ pc_[v][1].xbar = optimizeBayesNet(pc_[v][1].Rc1)
    /\ \A v \in Variants, w \in Variants :
          (status[v] = "ok" /\ status[w] = "ok") => pc_[v] = pc_[w]
    /\ (status["graph"] # "none" /\ status["split"] # "none") =>
          status["graph"] = status["split"]
    /\ \A v \in Variants : status[v] # "ok" => pc_[v] = <<>>

\* all three variants constructed, for a graph with tree and loop factors
C9_Witness ==
    /\ \A v \in Variants : status[v] = "ok"
    /\ result[1] # <<>>
    /\ result[2] # <<>>
====
